---- MODULE Spec2Model ----
(***************************************************************************)
(* The accessibility audit of ally-sidebar: checkAccessibility of          *)
(* AllySidebar.tsx (contrast, aria and structure rules) and the older      *)
(* checkAccessibility of AccessibilitySidebar.tsx (aria and structure      *)
(* rules, no contrast rule, no self-exclusion).                            *)
(*                                                                         *)
(* The document is the snapshot the code can observe through the DOM API:  *)
(* the elements in document order, each with its tagName, attributes,      *)
(* textContent, id, htmlFor, tabIndex, resolved backgroundColor and color, *)
(* and inSidebar, the answer of sidebar.contains(element).  Strings the    *)
(* code takes apart (colours, text content) are sequences of characters.   *)
(***************************************************************************)
EXTENDS Integers, Sequences, FiniteSets, TLC

VARIABLES tree, caller, category, result, previous, argument,
          violations, hasRun, loading, timers, showButton

\* The state of the mounted panel component.
panelVars == <<violations, hasRun, loading, timers, showButton>>

vars == <<tree, caller, category, result, previous, argument, panelVars>>

(***************************************************************************)
(* Bounds of the model.                                                    *)
(***************************************************************************)
MaxNodes == 3

(***************************************************************************)
(* Strings as character sequences.                                         *)
(***************************************************************************)
startsWith(s, p) == Len(s) >= Len(p) /\ SubSeq(s, 1, Len(p)) = p

DecimalDigits == <<"0", "1", "2", "3", "4", "5", "6", "7", "8", "9">>

\* The value of each hexadecimal digit, the decimal digits among them.
HexDigits ==
    "0" :> 0 @@ "1" :> 1 @@ "2" :> 2 @@ "3" :> 3 @@ "4" :> 4 @@ "5" :> 5 @@ "6" :> 6
    @@ "7" :> 7 @@ "8" :> 8 @@ "9" :> 9 @@ "a" :> 10 @@ "b" :> 11 @@ "c" :> 12
    @@ "d" :> 13 @@ "e" :> 14 @@ "f" :> 15 @@ "A" :> 10 @@ "B" :> 11 @@ "C" :> 12
    @@ "D" :> 13 @@ "E" :> 14 @@ "F" :> 15

IsHexDigit(ch) == ch \in DOMAIN HexDigits

HexValue(ch) == HexDigits[ch]

IsDigit(ch) == ch \in {"0", "1", "2", "3", "4", "5", "6", "7", "8", "9"}

DigitValue(ch) == HexDigits[ch]

\* The value JavaScript arithmetic gives when a number is missing or unparsable.
NaN == -1

\* Number.prototype.toString of a non-negative integer, as characters.
RECURSIVE NumberToString(_)
NumberToString(n) ==
    IF n < 10 THEN <<DecimalDigits[n + 1]>>
    ELSE NumberToString(n \div 10) \o <<DecimalDigits[(n % 10) + 1]>>

\* The serialisation of a resolved sRGB colour by getComputedStyle.
RgbString(r, g, b) ==
    <<"r", "g", "b", "(">> \o NumberToString(r) \o <<",", " ">>
        \o NumberToString(g) \o <<",", " ">> \o NumberToString(b) \o <<")">>

\* The resolved colour of a fully transparent background.
RgbaTransparent ==
    <<"r", "g", "b", "a", "(", "0", ",", " ", "0", ",", " ", "0", ",", " ", "0", ")">>

(***************************************************************************)
(* calculateContrastRatio and its helpers.                                 *)
(***************************************************************************)
\* color.match(/\d+/g): the maximal runs of decimal digits, as numbers, left to right.
\* cur is the value of the run being read, or NaN outside a run.
RECURSIVE MatchDigits(_, _, _)
MatchDigits(s, i, cur) ==
    IF i > Len(s) THEN (IF cur = NaN THEN <<>> ELSE <<cur>>)
    ELSE IF IsDigit(s[i])
         THEN MatchDigits(s, i + 1,
                          (IF cur = NaN THEN 0 ELSE cur * 10) + DigitValue(s[i]))
         ELSE (IF cur = NaN THEN <<>> ELSE <<cur>>) \o MatchDigits(s, i + 1, NaN)

\* parseInt(str, 16): the value of the longest prefix of hexadecimal digits, NaN if
\* there is none.
RECURSIVE ParseHexPrefix(_, _, _)
ParseHexPrefix(s, i, acc) ==
    IF i > Len(s) \/ ~IsHexDigit(s[i]) THEN acc
    ELSE ParseHexPrefix(s, i + 1, (IF acc = NaN THEN 0 ELSE acc * 16) + HexValue(s[i]))

parseInt16(s) == ParseHexPrefix(s, 1, NaN)

\* A faulty slice, for testing the colour property: the indexes taken as 1-based.
sliceOneBased(s, from, to) == SubSeq(s, from, to)

\* String.prototype.slice(from, to) with 0-based, end-exclusive indexes.
slice(s, from, to) ==
    SubSeq(s, from + 1, IF to > Len(s) THEN Len(s) ELSE to)

\* parseColor throws: "Unsupported color format" for any other syntax, and a
\* TypeError when an rgb string holds no digits (match returns null).
parseColorThrows(color) ==
    IF startsWith(color, <<"r", "g", "b">>) THEN MatchDigits(color, 1, NaN) = <<>>
    ELSE ~startsWith(color, <<"#">>)

\* parseColor where it returns: the array of numbers.
parseColor(color) ==
    IF startsWith(color, <<"r", "g", "b">>) THEN MatchDigits(color, 1, NaN)
    ELSE IF Len(color) = 4
         THEN << parseInt16(<<color[2], color[2]>>),
                 parseInt16(<<color[3], color[3]>>),
                 parseInt16(<<color[4], color[4]>>) >>
         ELSE << parseInt16(slice(color, 1, 3)),
                 parseInt16(slice(color, 3, 5)),
                 parseInt16(slice(color, 5, 7)) >>

\* round(100000 * f(c / 255)) for c = 0..255, where
\* f(x) = x / 12.92 if x <= 0.03928, ((x + 0.055) / 1.055) ^ 2.4 otherwise.
LinearTable ==
    <<
      0, 30, 61, 91, 121, 152, 182, 212, 243, 273, 304, 335,
      368, 402, 439, 478, 518, 561, 605, 651, 700, 750, 802, 857,
      913, 972, 1033, 1096, 1161, 1229, 1298, 1370, 1444, 1521, 1600, 1681,
      1764, 1850, 1938, 2029, 2122, 2217, 2315, 2416, 2519, 2624, 2732, 2843,
      2956, 3071, 3190, 3310, 3434, 3560, 3689, 3820, 3955, 4092, 4231, 4374,
      4519, 4667, 4817, 4971, 5127, 5286, 5448, 5613, 5781, 5951, 6125, 6301,
      6480, 6663, 6848, 7036, 7227, 7421, 7619, 7819, 8022, 8228, 8438, 8650,
      8866, 9084, 9306, 9531, 9759, 9990, 10224, 10462, 10702, 10946, 11193, 11444,
      11697, 11954, 12214, 12477, 12744, 13014, 13287, 13563, 13843, 14126, 14413, 14703,
      14996, 15293, 15593, 15896, 16203, 16513, 16827, 17144, 17465, 17789, 18116, 18447,
      18782, 19120, 19462, 19807, 20156, 20508, 20864, 21223, 21586, 21953, 22323, 22697,
      23074, 23455, 23840, 24228, 24620, 25016, 25415, 25818, 26225, 26636, 27050, 27468,
      27889, 28315, 28744, 29177, 29614, 30054, 30499, 30947, 31399, 31855, 32314, 32778,
      33245, 33716, 34191, 34670, 35153, 35640, 36131, 36625, 37124, 37626, 38133, 38643,
      39157, 39676, 40198, 40724, 41254, 41789, 42327, 42869, 43415, 43966, 44520, 45079,
      45641, 46208, 46778, 47353, 47932, 48515, 49102, 49693, 50289, 50888, 51492, 52100,
      52712, 53328, 53948, 54572, 55201, 55834, 56471, 57112, 57758, 58408, 59062, 59720,
      60383, 61050, 61721, 62396, 63076, 63760, 64448, 65141, 65837, 66539, 67244, 67954,
      68669, 69387, 70110, 70838, 71569, 72306, 73046, 73791, 74540, 75294, 76052, 76815,
      77582, 78354, 79130, 79910, 80695, 81485, 82279, 83077, 83880, 84687, 85499, 86316,
      87137, 87962, 88792, 89627, 90466, 91310, 92158, 93011, 93869, 94731, 95597, 96469,
      97345, 98225, 99110, 100000
    >>

\* Relative luminance times 10^9; NaN when a channel is missing or NaN.
calculateLuminance(r, g, b) ==
    IF r = NaN \/ g = NaN \/ b = NaN THEN NaN
    ELSE 2126 * LinearTable[r + 1] + 7152 * LinearTable[g + 1] + 722 * LinearTable[b + 1]

Channel(rgb, k) == IF k <= Len(rgb) THEN rgb[k] ELSE NaN

\* The ratio (lighter + 0.05) / (darker + 0.05) as a fraction of integers, both
\* terms times 10^6; num = NaN when a luminance is NaN.
calculateContrastRatio(bgColor, textColor) ==
    LET bg == parseColor(bgColor)
        text == parseColor(textColor)
        bgLuminance == calculateLuminance(Channel(bg, 1), Channel(bg, 2), Channel(bg, 3))
        textLuminance ==
            calculateLuminance(Channel(text, 1), Channel(text, 2), Channel(text, 3))
        lighter == IF bgLuminance >= textLuminance THEN bgLuminance ELSE textLuminance
        darker == IF bgLuminance >= textLuminance THEN textLuminance ELSE bgLuminance
    IN IF bgLuminance = NaN \/ textLuminance = NaN THEN [num |-> NaN, den |-> 1]
       ELSE [num |-> (lighter + 50000000) \div 1000, den |-> (darker + 50000000) \div 1000]

\* Number(ratio.toFixed(1)) in tenths: the ratio rounded to one decimal, half up.
toFixed1(ratio) ==
    IF ratio.num = NaN THEN NaN
    ELSE (20 * ratio.num + ratio.den) \div (2 * ratio.den)

convertToALevel(ratio) ==
    IF ratio >= 70 THEN "AAA"
    ELSE IF ratio >= 45 THEN "AA"
    ELSE "Fails WCAG"

(***************************************************************************)
(* The DOM the code reads.                                                 *)
(***************************************************************************)
\* The tag names of HTML elements, as tagName gives them, with their lower case.
LowerCase ==
    [A |-> "a", ASIDE |-> "aside", BUTTON |-> "button", DIV |-> "div",
     FOOTER |-> "footer", H1 |-> "h1", H2 |-> "h2", H3 |-> "h3", H4 |-> "h4",
     H5 |-> "h5", H6 |-> "h6", HEADER |-> "header", IFRAME |-> "iframe", IMG |-> "img",
     INPUT |-> "input", LABEL |-> "label", LI |-> "li", MAIN |-> "main", NAV |-> "nav",
     P |-> "p", SELECT |-> "select", SPAN |-> "span", SVG |-> "svg", TD |-> "td",
     TEXTAREA |-> "textarea", TH |-> "th"]

\* tagName.toLowerCase()
toLowerCase(tagName) == LowerCase[tagName]

hasAttribute(el, name) == name \in el.attributes

IsWhiteSpace(ch) == ch \in {" ", "\t", "\n"}

\* String.prototype.trim on a character sequence.
RECURSIVE trim(_)
trim(s) ==
    IF s = <<>> THEN s
    ELSE IF IsWhiteSpace(Head(s)) THEN trim(Tail(s))
    ELSE IF IsWhiteSpace(s[Len(s)]) THEN trim(SubSeq(s, 1, Len(s) - 1))
    ELSE s

\* A selector list: the tag names and the attribute names of its simple selectors.
Selector(tags, attributes) == [tags |-> tags, attributes |-> attributes]

Matches(el, selector) ==
    \/ toLowerCase(el.tagName) \in selector.tags
    \/ \E a \in selector.attributes : hasAttribute(el, a)

\* document.querySelectorAll: the positions of the matching elements, in document
\* order, each element once.
RECURSIVE SelectFrom(_, _, _)
SelectFrom(t, selector, i) ==
    IF i > Len(t) THEN <<>>
    ELSE (IF Matches(t[i], selector) THEN <<i>> ELSE <<>>) \o SelectFrom(t, selector, i + 1)

\* A faulty query, for testing the ordering property: the matches last to first.
querySelectorAllBackwards(t, selector) ==
    LET found == SelectFrom(t, selector, 1)
    IN [k \in 1..Len(found) |-> found[Len(found) + 1 - k]]

querySelectorAll(t, selector) == SelectFrom(t, selector, 1)

\* A faulty containment test, for testing the exclusion property: nothing is inside.
NeverInSidebar(el) == FALSE

\* sidebar && sidebar.contains(element), sidebar = getElementById("accessibility-sidebar")
InSidebar(el) == el.inSidebar

\* element.outerHTML: the element's own markup (its place in the document is no part of it).
outerHTML(el) ==
    [tagName |-> el.tagName, attributes |-> el.attributes, textContent |-> el.textContent,
     id |-> el.id, htmlFor |-> el.htmlFor]

\* element.innerHTML of an element whose content is text.
innerHTML(el) == el.textContent

\* `<${tagName.toLowerCase()}>`
ElementName(tagName) == "<" \o toLowerCase(tagName) \o ">"

\* parseInt(heading.tagName[1])
HeadingLevel(tagName) ==
    CASE tagName = "H1" -> 1 [] tagName = "H2" -> 2 [] tagName = "H3" -> 3
      [] tagName = "H4" -> 4 [] tagName = "H5" -> 5 [] tagName = "H6" -> 6

\* A number in tenths as JavaScript prints it in a template string: 45 is "4.5", 30 is "3".
RatioText(tenths) ==
    IF tenths % 10 = 0 THEN ToString(tenths \div 10)
    ELSE ToString(tenths \div 10) \o "." \o ToString(tenths % 10)

(***************************************************************************)
(* checkAccessibility of AllySidebar.tsx.  The filter "all" is the omitted *)
(* category.  Each rule takes the bucket as the rules before it left it    *)
(* and returns it with its own issues pushed, in the order of its forEach. *)
(* An issue carries, beside the fields of the code, the position (node) of *)
(* the element it was pushed for; 0 when it was pushed for no element.     *)
(***************************************************************************)
Filters == {"all", "aria", "structure", "contrast"}

\* A faulty report constructor, for testing the determinism property: the object the
\* previous call returned is handed out again instead of a fresh one.
SharedReport ==
    IF caller = "AllySidebar" /\ DOMAIN result = {"aria", "structure", "contrast"}
    THEN result
    ELSE [aria |-> <<>>, structure |-> <<>>, contrast |-> <<>>]

\* const issues = { aria: [], structure: [], contrast: [] }
NewReport == [aria |-> <<>>, structure |-> <<>>, contrast |-> <<>>]

\* What a call leaves when parseColor throws: no report, the error.
Thrown == [error |-> "Unsupported color format"]

IsReport(r) == DOMAIN r = {"aria", "structure", "contrast"}

TextSelector ==
    Selector({"p", "h1", "h2", "h3", "h4", "h5", "h6", "span", "a", "button", "li",
              "td", "th", "label", "input", "svg"}, {})

\* Number(calculateContrastRatio(bgColor, textColor).toFixed(1)), in tenths
ContrastOf(el) == toFixed1(calculateContrastRatio(el.backgroundColor, el.color))

ContrastThrowsAt(el) ==
    parseColorThrows(el.backgroundColor) \/ parseColorThrows(el.color)

\* contrastRatio <= 4.5 && contrastRatio !== 1
LowContrast(contrastRatio) ==
    contrastRatio # NaN /\ contrastRatio <= 45 /\ contrastRatio # 10

ContrastIssue(t, i) ==
    [severity |-> "error",
     message |-> "Low contrast text - (" \o RatioText(ContrastOf(t[i])) \o ") "
                 \o convertToALevel(ContrastOf(t[i])),
     element |-> ElementName(t[i].tagName),
     outerHTML |-> outerHTML(t[i]),
     impact |-> "Critical - Text may be difficult to read",
     help |-> "Ensure a contrast ratio of at least 4.5:1",
     node |-> i]

\* The contrast forEach throws at the first element outside the sidebar whose colour
\* parseColor rejects.
ContrastThrows(t) ==
    \E i \in 1..Len(t) :
        Matches(t[i], TextSelector) /\ ~InSidebar(t[i]) /\ ContrastThrowsAt(t[i])

ContrastRule(t, bucket) ==
    LET elements == querySelectorAll(t, TextSelector)
        push[k \in 0..Len(elements)] ==
            IF k = 0 THEN bucket
            ELSE IF InSidebar(t[elements[k]]) THEN push[k - 1]
            ELSE IF LowContrast(ContrastOf(t[elements[k]]))
                 THEN Append(push[k - 1], ContrastIssue(t, elements[k]))
                 ELSE push[k - 1]
    IN push[Len(elements)]

NameIssue(t, i) ==
    [severity |-> "error",
     message |-> "Interactive element missing accessible name",
     element |-> ElementName(t[i].tagName),
     outerHTML |-> outerHTML(t[i]),
     impact |-> "Critical - Screen readers cannot identify the purpose",
     help |-> "Add aria-label, aria-labelledby, or visible text content",
     node |-> i]

MissingName(el) ==
    /\ el.tagName = "BUTTON" \/ el.tagName = "A" \/ hasAttribute(el, "role")
    /\ ~hasAttribute(el, "aria-label")
    /\ ~hasAttribute(el, "aria-labelledby")
    /\ el.tagName # "IFRAME"
    /\ trim(el.textContent) = <<>>

NameRule(t, bucket) ==
    LET interactiveElements == querySelectorAll(t, Selector({"button", "a", "input"}, {"role"}))
        push[k \in 0..Len(interactiveElements)] ==
            IF k = 0 THEN bucket
            ELSE IF InSidebar(t[interactiveElements[k]]) THEN push[k - 1]
            ELSE IF MissingName(t[interactiveElements[k]])
                 THEN Append(push[k - 1], NameIssue(t, interactiveElements[k]))
                 ELSE push[k - 1]
    IN push[Len(interactiveElements)]

LabelIssue(t, i) ==
    [severity |-> "error",
     message |-> "Form control missing label",
     element |-> ElementName(t[i].tagName),
     outerHTML |-> outerHTML(t[i]),
     impact |-> "Critical - Screen readers cannot identify the input purpose",
     help |-> "Add a label element with matching \"for\" attribute or aria-label",
     node |-> i]

\* labels.some((label) => label.htmlFor === input.id), labels: every label of the document
hasLabel(t, input) ==
    LET labels == querySelectorAll(t, Selector({"label"}, {}))
    IN \E k \in 1..Len(labels) : t[labels[k]].htmlFor = input.id

LabelRule(t, bucket) ==
    LET formControls == querySelectorAll(t, Selector({"input", "select", "textarea"}, {}))
        push[k \in 0..Len(formControls)] ==
            IF k = 0 THEN bucket
            ELSE IF InSidebar(t[formControls[k]]) THEN push[k - 1]
            ELSE IF ~hasLabel(t, t[formControls[k]])
                    /\ ~hasAttribute(t[formControls[k]], "aria-label")
                 THEN Append(push[k - 1], LabelIssue(t, formControls[k]))
                 ELSE push[k - 1]
    IN push[Len(formControls)]

ImageSeverity == "warning"

ImageIssue(t, i) ==
    [severity |-> ImageSeverity,
     message |-> "Image missing alt text",
     element |-> "<img>",
     outerHTML |-> outerHTML(t[i]),
     impact |-> "Critical - Screen readers cannot describe the image",
     help |-> "Add alt attribute to provide image description",
     node |-> i]

ImageRule(t, bucket) ==
    LET images == querySelectorAll(t, Selector({"img"}, {}))
        push[k \in 0..Len(images)] ==
            IF k = 0 THEN bucket
            ELSE IF InSidebar(t[images[k]]) THEN push[k - 1]
            ELSE IF ~hasAttribute(t[images[k]], "alt")
                 THEN Append(push[k - 1], ImageIssue(t, images[k]))
                 ELSE push[k - 1]
    IN push[Len(images)]

FocusIssue(t, i) ==
    [severity |-> "warning",
     message |-> "Element not focusable via keyboard",
     element |-> ElementName(t[i].tagName),
     outerHTML |-> outerHTML(t[i]),
     impact |-> "Critical - Element cannot be accessed via keyboard",
     help |-> "Ensure element is focusable via keyboard",
     node |-> i]

\* A faulty test, for testing the focusability property: zero counts as negative.
NonPositiveTabIndex(el) == el.tabIndex <= 0

\* el.tabIndex < 0
NegativeTabIndex(el) == el.tabIndex < 0

FocusRule(t, bucket) ==
    LET focusableElements ==
            querySelectorAll(t, Selector({"a", "button", "input", "select", "textarea"}, {}))
        push[k \in 0..Len(focusableElements)] ==
            IF k = 0 THEN bucket
            ELSE IF InSidebar(t[focusableElements[k]]) THEN push[k - 1]
            ELSE IF NegativeTabIndex(t[focusableElements[k]])
                 THEN Append(push[k - 1], FocusIssue(t, focusableElements[k]))
                 ELSE push[k - 1]
    IN push[Len(focusableElements)]

HeadingSelector == Selector({"h1", "h2", "h3", "h4", "h5", "h6"}, {})

HeadingIssue(t, i, prevLevel, currentLevel) ==
    [severity |-> "warning",
     message |-> "Skipped heading level",
     element |-> ElementName(t[i].tagName),
     outerHTML |-> outerHTML(t[i]),
     impact |-> "Moderate - Document structure may be confusing",
     help |-> "Don't skip heading levels. Expected h" \o ToString(prevLevel + 1)
              \o ", found h" \o ToString(currentLevel),
     node |-> i]

\* A faulty comparison, for testing the heading property: any step up is a skip.
SkipsLevelOffByOne(currentLevel, prevLevel) == currentLevel > prevLevel

\* currentLevel > prevLevel + 1
SkipsLevel(currentLevel, prevLevel) == currentLevel > prevLevel + 1

\* headings.forEach((heading, index) => ...): index is k - 1, headings[index - 1] is
\* the heading before it in the list of every heading of the document.
HeadingRule(t, bucket) ==
    LET headings == querySelectorAll(t, HeadingSelector)
        push[k \in 0..Len(headings)] ==
            IF k = 0 THEN bucket
            ELSE IF InSidebar(t[headings[k]]) THEN push[k - 1]
            ELSE IF k - 1 > 0
                    /\ SkipsLevel(HeadingLevel(t[headings[k]].tagName),
                                  HeadingLevel(t[headings[k - 1]].tagName))
                 THEN Append(push[k - 1],
                             HeadingIssue(t, headings[k],
                                          HeadingLevel(t[headings[k - 1]].tagName),
                                          HeadingLevel(t[headings[k]].tagName)))
                 ELSE push[k - 1]
    IN push[Len(headings)]

landmarkNames == <<"header", "main", "nav", "footer", "aside">>

LandmarkIssue(landmark) ==
    [severity |-> "warning",
     message |-> "Missing landmark region",
     element |-> "<" \o landmark \o ">",
     impact |-> "Moderate - Screen readers may not navigate correctly",
     help |-> "Add a <" \o landmark \o "> element to define the region",
     node |-> 0]

\* A faulty search, for testing the landmark property: the sidebar's own landmarks count.
LandmarkFoundAnywhere(t, landmark) ==
    \E i \in 1..Len(t) : toLowerCase(t[i].tagName) = landmark

\* landmarks.some((el) => el.tagName.toLowerCase() === landmark && !sidebar?.contains(el))
LandmarkFound(t, landmark) ==
    LET landmarks ==
            querySelectorAll(t, Selector({"header", "main", "nav", "aside", "footer"}, {}))
    IN \E k \in 1..Len(landmarks) :
           /\ toLowerCase(t[landmarks[k]].tagName) = landmark
           /\ ~InSidebar(t[landmarks[k]])

LandmarkRule(t, bucket) ==
    LET push[k \in 0..Len(landmarkNames)] ==
            IF k = 0 THEN bucket
            ELSE IF ~LandmarkFound(t, landmarkNames[k])
                 THEN Append(push[k - 1], LandmarkIssue(landmarkNames[k]))
                 ELSE push[k - 1]
    IN push[Len(landmarkNames)]

checkAccessibility(t, c) ==
    LET issues == NewReport
    IN IF c \in {"all", "contrast"} /\ ContrastThrows(t) THEN Thrown
       ELSE [contrast |-> IF c \in {"all", "contrast"}
                          THEN ContrastRule(t, issues.contrast)
                          ELSE issues.contrast,
             aria |-> IF c \in {"all", "aria"}
                      THEN FocusRule(t, ImageRule(t, LabelRule(t, NameRule(t, issues.aria))))
                      ELSE issues.aria,
             structure |-> IF c \in {"all", "structure"}
                           THEN LandmarkRule(t, HeadingRule(t, issues.structure))
                           ELSE issues.structure]

(***************************************************************************)
(* checkAccessibility of AccessibilitySidebar.tsx: the aria and structure  *)
(* rules only, in its own rule order, with no test of the sidebar and no   *)
(* iframe exemption; an issue carries innerHTML instead of outerHTML.      *)
(***************************************************************************)
LegacyFilters == {"all", "aria", "structure"}

LegacyNewReport == [aria |-> <<>>, structure |-> <<>>]

LegacyNameIssue(t, i) ==
    [severity |-> "error",
     message |-> "Interactive element missing accessible name",
     element |-> ElementName(t[i].tagName),
     innerHTML |-> innerHTML(t[i]),
     impact |-> "Critical - Screen readers cannot identify the purpose",
     help |-> "Add aria-label, aria-labelledby, or visible text content",
     node |-> i]

LegacyMissingName(el) ==
    /\ el.tagName = "BUTTON" \/ el.tagName = "A" \/ hasAttribute(el, "role")
    /\ ~hasAttribute(el, "aria-label")
    /\ ~hasAttribute(el, "aria-labelledby")
    /\ trim(el.textContent) = <<>>

LegacyNameRule(t, bucket) ==
    LET interactiveElements == querySelectorAll(t, Selector({"button", "a", "input"}, {"role"}))
        push[k \in 0..Len(interactiveElements)] ==
            IF k = 0 THEN bucket
            ELSE IF LegacyMissingName(t[interactiveElements[k]])
                 THEN Append(push[k - 1], LegacyNameIssue(t, interactiveElements[k]))
                 ELSE push[k - 1]
    IN push[Len(interactiveElements)]

LegacyImageIssue(t, i) ==
    [severity |-> "error",
     message |-> "Image missing alt text",
     element |-> "<img>",
     innerHTML |-> innerHTML(t[i]),
     impact |-> "Critical - Screen readers cannot describe the image",
     help |-> "Add alt attribute to provide image description",
     node |-> i]

LegacyImageRule(t, bucket) ==
    LET images == querySelectorAll(t, Selector({"img"}, {}))
        push[k \in 0..Len(images)] ==
            IF k = 0 THEN bucket
            ELSE IF ~hasAttribute(t[images[k]], "alt")
                 THEN Append(push[k - 1], LegacyImageIssue(t, images[k]))
                 ELSE push[k - 1]
    IN push[Len(images)]

LegacyLabelIssue(t, i) ==
    [severity |-> "error",
     message |-> "Form control missing label",
     element |-> ElementName(t[i].tagName),
     innerHTML |-> innerHTML(t[i]),
     impact |-> "Critical - Screen readers cannot identify the input purpose",
     help |-> "Add a label element with matching \"for\" attribute or aria-label",
     node |-> i]

LegacyLabelRule(t, bucket) ==
    LET formControls == querySelectorAll(t, Selector({"input", "select", "textarea"}, {}))
        push[k \in 0..Len(formControls)] ==
            IF k = 0 THEN bucket
            ELSE IF ~hasLabel(t, t[formControls[k]])
                    /\ ~hasAttribute(t[formControls[k]], "aria-label")
                 THEN Append(push[k - 1], LegacyLabelIssue(t, formControls[k]))
                 ELSE push[k - 1]
    IN push[Len(formControls)]

LegacyHeadingIssue(t, i, prevLevel, currentLevel) ==
    [severity |-> "warning",
     message |-> "Skipped heading level",
     element |-> ElementName(t[i].tagName),
     innerHTML |-> innerHTML(t[i]),
     impact |-> "Moderate - Document structure may be confusing",
     help |-> "Don't skip heading levels. Expected h" \o ToString(prevLevel + 1)
              \o ", found h" \o ToString(currentLevel),
     node |-> i]

LegacyHeadingRule(t, bucket) ==
    LET headings == querySelectorAll(t, HeadingSelector)
        push[k \in 0..Len(headings)] ==
            IF k = 0 THEN bucket
            ELSE IF k - 1 > 0
                    /\ HeadingLevel(t[headings[k]].tagName)
                         > HeadingLevel(t[headings[k - 1]].tagName) + 1
                 THEN Append(push[k - 1],
                             LegacyHeadingIssue(t, headings[k],
                                                HeadingLevel(t[headings[k - 1]].tagName),
                                                HeadingLevel(t[headings[k]].tagName)))
                 ELSE push[k - 1]
    IN push[Len(headings)]

AccessibilitySidebar_checkAccessibility(t, c) ==
    LET issues == LegacyNewReport
    IN [aria |-> IF c \in {"all", "aria"}
                 THEN LegacyLabelRule(t, LegacyImageRule(t, LegacyNameRule(t, issues.aria)))
                 ELSE issues.aria,
        structure |-> IF c \in {"all", "structure"}
                      THEN LegacyHeadingRule(t, issues.structure)
                      ELSE issues.structure]

(***************************************************************************)
(* The documents the checks are run on.                                    *)
(***************************************************************************)
Black == RgbString(0, 0, 0)

White == RgbString(255, 255, 255)

\* An element outside the sidebar with the default resolved colours: a transparent
\* background and black text.
Element(tagName, attributes, textContent, id, htmlFor, tabIndex) ==
    [tagName |-> tagName, attributes |-> attributes, textContent |-> textContent,
     id |-> id, htmlFor |-> htmlFor, tabIndex |-> tabIndex,
     backgroundColor |-> RgbaTransparent, color |-> Black, inSidebar |-> FALSE]

Styled(el, backgroundColor, color) ==
    [el EXCEPT !.backgroundColor = backgroundColor, !.color = color]

\* The elements of places a..b are inside the sidebar: the descendants of one element
\* are consecutive in document order.  <<1, 0>> is no sidebar content.
SidebarBlocks(n) ==
    {<<1, 0>>} \cup {blk \in (1..n) \X (1..n) : blk[1] <= blk[2]}

\* Every document of at most MaxNodes elements drawn from pool.
Documents(pool) ==
    UNION { { [i \in 1..n |-> [s[i] EXCEPT !.inSidebar = (blk[1] <= i /\ i <= blk[2])]] :
                s \in [1..n -> pool], blk \in SidebarBlocks(n) } : n \in 0..MaxNodes }

\* A page with one element for each rule to flag.
PagePool ==
    { Styled(Element("BUTTON", {"tabindex"}, <<>>, "", "", -1), White, RgbString(150, 150, 150)),
      Element("INPUT", {}, <<>>, "", "", 0),
      Element("IMG", {}, <<>>, "", "", 0),
      Element("H1", {}, <<"T", "o", "p">>, "", "", 0),
      Element("H3", {}, <<"S", "u", "b">>, "", "", 0) }

\* Text on a white background: ratios 21, 4.48 (4.5 rounded), 2.96; the default
\* colours (ratio 1); a background getComputedStyle gives in a syntax parseColor does
\* not know; and an element the contrast rule does not select.
ContrastPool ==
    { Styled(Element("P", {}, <<"a">>, "", "", 0), White, Black),
      Styled(Element("SPAN", {}, <<"b">>, "", "", 0), White, RgbString(119, 119, 119)),
      Styled(Element("A", {"href"}, <<"c">>, "", "", 0), White, RgbString(150, 150, 150)),
      Element("LI", {}, <<"d">>, "", "", 0),
      Styled(Element("TD", {}, <<"e">>, "", "", 0),
             <<"l", "a", "b", "(", "5", "0", " ", "0", " ", "0", ")">>, Black),
      Styled(Element("DIV", {}, <<"f">>, "", "", 0), White, RgbString(150, 150, 150)) }

NamePool ==
    { Element("BUTTON", {}, <<" ">>, "", "", 0),
      Element("BUTTON", {}, <<"O", "K">>, "", "", 0),
      Element("IFRAME", {"role", "src"}, <<>>, "", "", 0),
      Element("DIV", {"role", "aria-labelledby"}, <<>>, "", "", -1),
      Element("INPUT", {"role"}, <<>>, "", "", 0),
      Element("A", {"href", "aria-label"}, <<>>, "", "", 0) }

LabelPool ==
    { Element("INPUT", {}, <<>>, "", "", 0),
      Element("INPUT", {"id"}, <<>>, "q", "", 0),
      Element("LABEL", {}, <<"N">>, "", "", -1),
      Element("LABEL", {"for"}, <<"Q">>, "", "q", -1),
      Element("SELECT", {"aria-label"}, <<>>, "", "", 0),
      Element("TEXTAREA", {"id", "aria-labelledby"}, <<>>, "x", "", 0) }

HeadingPool ==
    { Element("H1", {}, <<"1">>, "", "", -1),
      Element("H2", {}, <<"2">>, "", "", -1),
      Element("H3", {}, <<"3">>, "", "", -1),
      Element("H4", {}, <<"4">>, "", "", -1),
      Element("P", {}, <<"p">>, "", "", -1) }

Landmark(tagName) == Element(tagName, {}, <<>>, "", "", -1)

LandmarkPool == { Landmark("NAV"), Landmark("FOOTER"), Landmark("ASIDE") }

\* What a landmark document starts with, outside the sidebar.
LandmarkBases ==
    { <<>>,
      <<Landmark("HEADER"), Landmark("MAIN")>>,
      <<Landmark("HEADER"), Landmark("MAIN"), Landmark("FOOTER"), Landmark("ASIDE")>> }

(***************************************************************************)
(* The state: the document, and the last call: which component's           *)
(* checkAccessibility ran, with which filter, and what it produced.        *)
(* previous is what the call before it produced when that was the same     *)
(* call (same component, same filter), kept to compare the two.            *)
(* argument is the argument of a call of parseColor alone: the string and  *)
(* the colour it was written from.                                         *)
(* violations, hasRun, loading and showButton are the useState values of   *)
(* the panel component; timers tells, per category, whether a setTimeout   *)
(* callback of runCategoryCheck is still to run.                           *)
(***************************************************************************)
NotCalled == [called |-> FALSE]

\* No panel component is mounted: checkAccessibility is looked at on its own.
NotMounted == [mounted |-> FALSE]

PanelNotMounted ==
    /\ violations = NotMounted
    /\ hasRun = NotMounted
    /\ loading = NotMounted
    /\ timers = NotMounted
    /\ showButton = NotMounted

InitOn(pool) ==
    /\ tree \in Documents(pool)
    /\ caller = "none"
    /\ category = "none"
    /\ result = NotCalled
    /\ previous = NotCalled
    /\ argument = NotCalled
    /\ PanelNotMounted

Init == InitOn(PagePool)

\* A call checkAccessibility(c) of AllySidebar.tsx; c = "all" is checkAccessibility().
Check(c) ==
    /\ caller' = "AllySidebar"
    /\ category' = c
    /\ result' = checkAccessibility(tree, c)
    /\ previous' = IF caller = "AllySidebar" /\ category = c THEN result ELSE NotCalled
    /\ UNCHANGED <<tree, argument, panelVars>>

\* A call checkAccessibility(c) of AccessibilitySidebar.tsx.
LegacyCheck(c) ==
    /\ caller' = "AccessibilitySidebar"
    /\ category' = c
    /\ result' = AccessibilitySidebar_checkAccessibility(tree, c)
    /\ previous' = IF caller = "AccessibilitySidebar" /\ category = c THEN result
                   ELSE NotCalled
    /\ UNCHANGED <<tree, argument, panelVars>>

Next ==
    \/ \E c \in Filters : Check(c)
    \/ \E c \in LegacyFilters : LegacyCheck(c)

Spec == Init /\ [][Next]_vars

InitContrast == InitOn(ContrastPool)

SpecContrast == InitContrast /\ [][Next]_vars

InitName == InitOn(NamePool)

SpecName == InitName /\ [][Next]_vars

InitLabel == InitOn(LabelPool)

SpecLabel == InitLabel /\ [][Next]_vars

InitHeadings == InitOn(HeadingPool)

SpecHeadings == InitHeadings /\ [][Next]_vars

\* Images with and without an alt attribute (alt="" is an attribute that is present).
ImagePool ==
    { Element("IMG", {}, <<>>, "", "", -1),
      Element("IMG", {"src"}, <<>>, "", "", -1),
      Element("IMG", {"alt"}, <<>>, "", "", -1),
      Element("IMG", {"src", "alt"}, <<>>, "", "", -1),
      Element("P", {}, <<"a">>, "", "", -1) }

InitImages == InitOn(ImagePool)

SpecImages == InitImages /\ [][Next]_vars

\* Focusable kinds with a negative, a zero and a positive tabIndex, and another kind
\* with a negative one.
FocusPool ==
    { Element("A", {"href"}, <<"c">>, "", "", 0),
      Element("BUTTON", {"tabindex"}, <<"O", "K">>, "", "", -1),
      Element("INPUT", {"tabindex", "aria-label"}, <<>>, "", "", 2),
      Element("TEXTAREA", {"tabindex", "aria-label"}, <<>>, "", "", -1),
      Element("DIV", {"tabindex"}, <<"f">>, "", "", -1) }

InitFocus == InitOn(FocusPool)

SpecFocus == InitFocus /\ [][Next]_vars

InitLandmarks ==
    /\ tree \in {base \o t : base \in LandmarkBases, t \in Documents(LandmarkPool)}
    /\ caller = "none"
    /\ category = "none"
    /\ result = NotCalled
    /\ previous = NotCalled
    /\ argument = NotCalled
    /\ PanelNotMounted

SpecLandmarks == InitLandmarks /\ [][Next]_vars

(***************************************************************************)
(* parseColor on its own: colour strings written from a triple of          *)
(* components in each supported syntax, then parsed.                       *)
(***************************************************************************)
HexChars ==
    [upper \in BOOLEAN |->
        IF upper
        THEN <<"0", "1", "2", "3", "4", "5", "6", "7", "8", "9", "A", "B", "C", "D", "E", "F">>
        ELSE <<"0", "1", "2", "3", "4", "5", "6", "7", "8", "9", "a", "b", "c", "d", "e", "f">>]

\* '#rgb' written from three hex digits d (each stands for the component 17 * d).
Hex3String(r, g, b, upper) ==
    <<"#", HexChars[upper][r + 1], HexChars[upper][g + 1], HexChars[upper][b + 1]>>

\* Two hex digits for a component in 0..255.
HexPair(c, upper) == <<HexChars[upper][(c \div 16) + 1], HexChars[upper][(c % 16) + 1]>>

\* '#rrggbb' written from three components.
Hex6String(r, g, b, upper) ==
    <<"#">> \o HexPair(r, upper) \o HexPair(g, upper) \o HexPair(b, upper)

\* 'rgba(r, g, b, a)' as getComputedStyle writes it; alpha is the text of the alpha.
RgbaString(r, g, b, alpha) ==
    <<"r", "g", "b", "a", "(">> \o NumberToString(r) \o <<",", " ">>
        \o NumberToString(g) \o <<",", " ">> \o NumberToString(b) \o <<",", " ">>
        \o alpha \o <<")">>

\* Components and hex digits the strings are written from, and alpha texts.
ColorComponents == {0, 9, 119, 255}

ColorDigits == {0, 9, 10, 15}

ColorAlphas == { <<"0">>, <<"0", ".", "5">>, <<"0", ".", "3", "9", "2">> }

ColorInput(format, r, g, b, text) ==
    [format |-> format, r |-> r, g |-> g, b |-> b, text |-> text]

ColorInputs ==
    {ColorInput("#rgb", 17 * r, 17 * g, 17 * b, Hex3String(r, g, b, upper)) :
        r \in ColorDigits, g \in ColorDigits, b \in ColorDigits, upper \in BOOLEAN}
    \cup {ColorInput("#rrggbb", r, g, b, Hex6String(r, g, b, upper)) :
            r \in ColorComponents, g \in ColorComponents, b \in ColorComponents,
            upper \in BOOLEAN}
    \cup {ColorInput("rgb", r, g, b, RgbString(r, g, b)) :
            r \in ColorComponents, g \in ColorComponents, b \in ColorComponents}
    \cup {ColorInput("rgba", r, g, b, RgbaString(r, g, b, alpha)) :
            r \in ColorComponents, g \in ColorComponents, b \in ColorComponents,
            alpha \in ColorAlphas}

InitColor ==
    /\ tree = <<>>
    /\ caller = "none"
    /\ category = "none"
    /\ result = NotCalled
    /\ previous = NotCalled
    /\ argument \in ColorInputs
    /\ PanelNotMounted

\* A call parseColor(argument.text), as calculateContrastRatio makes it.
ParseColor ==
    /\ caller' = "parseColor"
    /\ category' = argument.format
    /\ result' = IF parseColorThrows(argument.text) THEN Thrown
                 ELSE [rgb |-> parseColor(argument.text)]
    /\ previous' = NotCalled
    /\ UNCHANGED <<tree, argument, panelVars>>

NextColor == ParseColor

SpecColor == InitColor /\ [][NextColor]_vars

(***************************************************************************)
(* The panel components: AllySidebar (violations, hasRun, loading,         *)
(* runCategoryCheck, the pathname effect) and AccessibilitySidebar         *)
(* (violations, hasRun, showButton, runCategoryCheck).  A route change     *)
(* brings a new page; the pages are short documents with no panel content  *)
(* the rules would visit.                                                  *)
(***************************************************************************)
MaxPageNodes == 1

\* An empty focus-removed button in low contrast, an image without alt, and a cell
\* whose background colour parseColor rejects.
PanelPool ==
    { Styled(Element("BUTTON", {"tabindex"}, <<>>, "", "", -1), White,
             RgbString(150, 150, 150)),
      Element("IMG", {"src"}, <<>>, "", "", -1),
      Styled(Element("TD", {}, <<"e">>, "", "", 0),
             <<"l", "a", "b", "(", "5", "0", " ", "0", " ", "0", ")">>, Black) }

Pages ==
    UNION {[1..n -> PanelPool] : n \in 0..MaxPageNodes}

AllySidebarMounted == DOMAIN violations = {"aria", "structure", "contrast"}

AccessibilitySidebarMounted == DOMAIN violations = {"aria", "structure"}

\* useState initial values of AllySidebar; no timer is pending.
InitAllySidebar ==
    /\ violations = [aria |-> <<>>, structure |-> <<>>, contrast |-> <<>>]
    /\ hasRun = [aria |-> FALSE, structure |-> FALSE, contrast |-> FALSE]
    /\ loading = [aria |-> FALSE, structure |-> FALSE, contrast |-> FALSE]
    /\ timers = [aria |-> FALSE, structure |-> FALSE, contrast |-> FALSE]
    /\ showButton = NotMounted

\* useState initial values of AccessibilitySidebar.
InitAccessibilitySidebar ==
    /\ violations = [aria |-> <<>>, structure |-> <<>>]
    /\ hasRun = [aria |-> FALSE, structure |-> FALSE]
    /\ showButton = [aria |-> TRUE, structure |-> TRUE]
    /\ loading = NotMounted
    /\ timers = NotMounted

InitPanel ==
    /\ tree \in Pages
    /\ caller = "none"
    /\ category = "none"
    /\ result = NotCalled
    /\ previous = NotCalled
    /\ argument = NotCalled
    /\ InitAllySidebar \/ InitAccessibilitySidebar

\* setViolations((prev) => ({ ...prev, [category]: bucket }))
setViolations(prev, c, bucket) == [prev EXCEPT ![c] = bucket]

\* A faulty update, for testing the hasRun property: the flag is flipped.
setHasRunFlipped(prev, c) == [prev EXCEPT ![c] = ~prev[c]]

\* setHasRun((prev) => ({ ...prev, [category]: true }))
setHasRun(prev, c) == [prev EXCEPT ![c] = TRUE]

\* setLoading((prev) => ({ ...prev, [category]: value }))
setLoading(prev, c, value) == [prev EXCEPT ![c] = value]

\* runCategoryCheck(c) of AllySidebar.  checkAccessibility is called first: when it
\* throws, the handler ends there and no state is set.
runCategoryCheck(c) ==
    /\ AllySidebarMounted
    /\ caller' = "runCategoryCheck"
    /\ category' = c
    /\ result' = checkAccessibility(tree, c)
    /\ IF result' = Thrown
       THEN UNCHANGED <<violations, hasRun, loading, timers>>
       ELSE /\ loading' = setLoading(loading, c, TRUE)
            /\ violations' = setViolations(violations, c, result'[c])
            /\ hasRun' = setHasRun(hasRun, c)
            /\ timers' = [timers EXCEPT ![c] = TRUE]
    /\ previous' = NotCalled
    /\ UNCHANGED <<tree, argument, showButton>>

\* A setTimeout callback of runCategoryCheck(c) runs.  Every call sets a timer of its
\* own, so another one for c may still be pending afterwards.
TimerFires(c) ==
    /\ AllySidebarMounted
    /\ timers[c]
    /\ loading' = setLoading(loading, c, FALSE)
    /\ \E pending \in BOOLEAN : timers' = [timers EXCEPT ![c] = pending]
    /\ caller' = "setTimeout"
    /\ category' = c
    /\ result' = NotCalled
    /\ previous' = NotCalled
    /\ UNCHANGED <<tree, argument, violations, hasRun, showButton>>

\* A faulty guard, for testing the route-change property: the effect always scans.
AlwaysRescan(prev) == TRUE

\* violations.aria.length > 0
ShouldRescan(prev) == Len(prev.aria) > 0

\* The pathname changes: a page is rendered and, in AllySidebar, the effect on
\* [pathname] runs on it.  AccessibilitySidebar has no such effect.
RouteChange ==
    /\ AllySidebarMounted \/ AccessibilitySidebarMounted
    /\ tree' \in Pages
    /\ caller' = "pathname"
    /\ category' = "aria"
    /\ IF AllySidebarMounted /\ ShouldRescan(violations)
       THEN /\ result' = checkAccessibility(tree', "aria")
            /\ violations' = setViolations(violations, "aria", result'.aria)
       ELSE /\ result' = NotCalled
            /\ UNCHANGED violations
    /\ previous' = NotCalled
    /\ UNCHANGED <<argument, hasRun, loading, timers, showButton>>

\* runCategoryCheck(c) of AccessibilitySidebar.
AccessibilitySidebar_runCategoryCheck(c) ==
    /\ AccessibilitySidebarMounted
    /\ caller' = "AccessibilitySidebar.runCategoryCheck"
    /\ category' = c
    /\ result' = AccessibilitySidebar_checkAccessibility(tree, c)
    /\ violations' = setViolations(violations, c, result'[c])
    /\ hasRun' = setHasRun(hasRun, c)
    /\ showButton' = [showButton EXCEPT ![c] = FALSE]
    /\ previous' = NotCalled
    /\ UNCHANGED <<tree, argument, loading, timers>>

NextPanel ==
    \/ \E c \in {"aria", "structure", "contrast"} : runCategoryCheck(c)
    \/ \E c \in {"aria", "structure", "contrast"} : TimerFires(c)
    \/ RouteChange
    \/ \E c \in {"aria", "structure"} : AccessibilitySidebar_runCategoryCheck(c)

SpecPanel == InitPanel /\ [][NextPanel]_vars

(***************************************************************************)
(* What the claims speak of.                                               *)
(***************************************************************************)
Buckets == {"aria", "structure", "contrast"}

\* checkAccessibility of AllySidebar.tsx was called with a filter in cs and returned.
Returned(cs) == caller = "AllySidebar" /\ category \in cs /\ IsReport(result)

\* checkAccessibility of AccessibilitySidebar.tsx was called with a filter in cs.
LegacyReturned(cs) == caller = "AccessibilitySidebar" /\ category \in cs

\* How many issues of bucket carry this message for the element at place i.
IssueCount(bucket, message, i) ==
    Cardinality({k \in 1..Len(bucket) : bucket[k].message = message /\ bucket[k].node = i})

\* The issues of a bucket as the caller sees them: without the place of the element.
Shown(bucket) ==
    [k \in 1..Len(bucket) |->
        [f \in DOMAIN bucket[k] \ {"node"} |-> bucket[k][f]]]

\* A text-bearing element outside the sidebar with a colour parseColor rejects.
UnsupportedColor(el) ==
    Matches(el, TextSelector) /\ ~el.inSidebar /\ ContrastThrowsAt(el)

RECURSIVE WithoutUnsupported(_)
WithoutUnsupported(t) ==
    IF t = <<>> THEN <<>>
    ELSE (IF UnsupportedColor(Head(t)) THEN <<>> ELSE <<Head(t)>>)
             \o WithoutUnsupported(Tail(t))

\* C1: for every tree and every category c of aria, structure, contrast,
\* checkAccessibility(c) returns a report with the three keys aria, structure and
\* contrast in which every bucket other than c is the empty sequence.
C1_FilteredCallReturnsReport ==
    (caller = "AllySidebar" /\ category \in Buckets) =>
        /\ IsReport(result)
        /\ \A b \in Buckets \ {category} : result[b] = <<>>

\* C2: when a text-bearing element outside the sidebar has a colour in an unsupported
\* syntax, checkAccessibility("contrast") and checkAccessibility() still return a
\* report: no contrast issue is about that element, the contrast bucket is the one of
\* the document without it, and the aria and structure rules give what they give on
\* the whole document.
C2_UnsupportedColorIsSkipped ==
    (caller = "AllySidebar" /\ category \in {"all", "contrast"}
        /\ \E i \in 1..Len(tree) : UnsupportedColor(tree[i])) =>
        /\ IsReport(result)
        /\ \A k \in 1..Len(result.contrast) : ~UnsupportedColor(tree[result.contrast[k].node])
        /\ Shown(result.contrast)
             = Shown(ContrastRule(WithoutUnsupported(tree), <<>>))
        /\ category = "all" =>
             /\ result.aria = checkAccessibility(tree, "aria").aria
             /\ result.structure = checkAccessibility(tree, "structure").structure

\* C3: for every text-bearing element outside the sidebar whose two colours parse, the
\* contrast bucket holds an error issue for it if and only if its ratio rounded to one
\* decimal is classified Fail (below 4.5) and is not exactly 1.0.
C3_ReportedIffRoundedRatioFails ==
    Returned({"all", "contrast"}) =>
        \A i \in 1..Len(tree) :
            (/\ Matches(tree[i], TextSelector)
             /\ ~tree[i].inSidebar
             /\ ~ContrastThrowsAt(tree[i])
             /\ ContrastOf(tree[i]) # NaN) =>
                ((\E k \in 1..Len(result.contrast) :
                     /\ result.contrast[k].node = i
                     /\ result.contrast[k].severity = "error")
                 <=> (/\ convertToALevel(ContrastOf(tree[i])) = "Fails WCAG"
                      /\ ContrastOf(tree[i]) # 10))

\* What the panel of AccessibilitySidebar.tsx renders, of the elements its rules visit.
LegacyPanelMarkup(el) ==
    \/ el.tagName \in {"H1", "H2"}
    \/ el.tagName = "BUTTON"
          /\ (hasAttribute(el, "aria-label") \/ trim(el.textContent) # <<>>)

\* C4: no issue in any bucket of a report of checkAccessibility (AllySidebar.tsx) is
\* about an element inside the sidebar, whatever the filter and whichever rule pushed it.
\* AccessibilitySidebar.tsx has no containment test; the markup its own panel renders
\* (the h2 and h1 titles, buttons that carry an aria-label or a caption) is markup its
\* rules raise nothing about.
C4_NoIssueInsideSidebar ==
    /\ Returned(Filters) =>
          \A b \in Buckets : \A k \in 1..Len(result[b]) :
              result[b][k].node # 0 => ~tree[result[b][k].node].inSidebar
    /\ (/\ LegacyReturned(LegacyFilters)
         /\ \A i \in 1..Len(tree) : tree[i].inSidebar => LegacyPanelMarkup(tree[i])) =>
          \A b \in {"aria", "structure"} : \A k \in 1..Len(result[b]) :
              ~tree[result[b][k].node].inSidebar

\* Every rule but the landmark rule has flagged an element outside the sidebar while
\* an element of the same markup sits inside it.
C4_Witness ==
    /\ Returned({"all"})
    /\ \E i, j \in 1..Len(tree) :
          /\ tree[i].tagName = "BUTTON" /\ tree[i].inSidebar
          /\ tree[j].tagName = "BUTTON" /\ ~tree[j].inSidebar
          /\ IssueCount(result.contrast, "Low contrast text - (3) Fails WCAG", j) = 1
          /\ IssueCount(result.aria, "Interactive element missing accessible name", j) = 1
          /\ IssueCount(result.aria, "Element not focusable via keyboard", j) = 1
          /\ IssueCount(result.aria, "Interactive element missing accessible name", i) = 0
    /\ \E i \in 1..Len(tree) : tree[i].tagName \in {"INPUT", "IMG", "H3"} /\ tree[i].inSidebar

\* The places of the headings of the document, in document order.
HeadingsOf(t) == querySelectorAll(t, HeadingSelector)

SkippedHelp(prevLevel, level) ==
    "Don't skip heading levels. Expected h" \o ToString(prevLevel + 1)
        \o ", found h" \o ToString(level)

\* The heading at place k of the list is one the claim expects a warning for.
JumpsAt(t, k) ==
    /\ k > 1
    /\ HeadingLevel(t[HeadingsOf(t)[k]].tagName)
         > HeadingLevel(t[HeadingsOf(t)[k - 1]].tagName) + 1

\* excluding: the component leaves the headings inside the sidebar out.
HeadingIssuesAsClaimed(t, bucket, excluding) ==
    /\ \A k \in 1..Len(HeadingsOf(t)) :
          IssueCount(bucket, "Skipped heading level", HeadingsOf(t)[k])
            = IF JumpsAt(t, k) /\ ~(excluding /\ t[HeadingsOf(t)[k]].inSidebar)
              THEN 1 ELSE 0
    /\ \A j \in 1..Len(bucket) :
          bucket[j].message = "Skipped heading level" =>
            /\ bucket[j].severity = "warning"
            /\ \E k \in 2..Len(HeadingsOf(t)) :
                  /\ bucket[j].node = HeadingsOf(t)[k]
                  /\ bucket[j].help
                       = SkippedHelp(HeadingLevel(t[HeadingsOf(t)[k - 1]].tagName),
                                     HeadingLevel(t[HeadingsOf(t)[k]].tagName))

\* C5: the heading rule pushes exactly one 'Skipped heading level' warning for each
\* heading after the first whose level exceeds the level of the heading right before
\* it in document order by more than one, citing 'Expected h(prev+1), found h(level)',
\* and nothing for any other heading.  In AllySidebar.tsx the headings the rule visits
\* are those outside the sidebar; in AccessibilitySidebar.tsx, every heading.
C5_HeadingRule ==
    /\ Returned({"all", "structure"}) =>
          HeadingIssuesAsClaimed(tree, result.structure, TRUE)
    /\ LegacyReturned({"all", "structure"}) =>
          HeadingIssuesAsClaimed(tree, result.structure, FALSE)

\* [h1, h2, h4] yields exactly one issue, citing expected h3, found h4.
C5_Witness ==
    /\ Returned({"structure"})
    /\ [i \in 1..Len(tree) |-> tree[i].tagName] = <<"H1", "H2", "H4">>
    /\ \A i \in 1..Len(tree) : ~tree[i].inSidebar
    /\ \E k \in 1..Len(result.structure) :
          /\ result.structure[k].node = 3
          /\ result.structure[k].help = "Don't skip heading levels. Expected h3, found h4"
    /\ Cardinality({k \in 1..Len(result.structure) :
                      result.structure[k].message = "Skipped heading level"}) = 1

\* The landmark issues of a bucket that name this landmark.
LandmarkCount(bucket, landmark) ==
    Cardinality({k \in 1..Len(bucket) :
                   /\ bucket[k].message = "Missing landmark region"
                   /\ bucket[k].element = "<" \o landmark \o ">"})

\* The five required landmarks: header, main, navigation, footer, complementary.
RequiredLandmarks == {"header", "main", "nav", "footer", "aside"}

\* C6: for each of the five required landmarks the structure bucket holds exactly one
\* 'Missing landmark region' warning for it if and only if no element of that landmark
\* is in the document outside the sidebar, however many there are and wherever.
C6_LandmarkRule ==
    Returned({"all", "structure"}) =>
        /\ \A landmark \in RequiredLandmarks :
              LandmarkCount(result.structure, landmark)
                = IF \E i \in 1..Len(tree) :
                        toLowerCase(tree[i].tagName) = landmark /\ ~tree[i].inSidebar
                  THEN 0 ELSE 1
        /\ \A k \in 1..Len(result.structure) :
              result.structure[k].message = "Missing landmark region" =>
                /\ result.structure[k].severity = "warning"
                /\ \E landmark \in RequiredLandmarks :
                      result.structure[k].element = "<" \o landmark \o ">"

\* A document lacking only a nav outside the sidebar (one sits inside it) yields
\* exactly one landmark issue, for nav.
C6_Witness ==
    /\ Returned({"structure"})
    /\ \A landmark \in RequiredLandmarks \ {"nav"} :
          \E i \in 1..Len(tree) :
              toLowerCase(tree[i].tagName) = landmark /\ ~tree[i].inSidebar
    /\ \E i \in 1..Len(tree) : tree[i].tagName = "NAV" /\ tree[i].inSidebar
    /\ \E i, j \in 1..Len(tree) : i # j /\ tree[i].tagName = tree[j].tagName
                                   /\ ~tree[i].inSidebar /\ ~tree[j].inSidebar
    /\ LandmarkCount(result.structure, "nav") = 1
    /\ Cardinality({k \in 1..Len(result.structure) :
                      result.structure[k].message = "Missing landmark region"}) = 1

\* The element is one the accessible-name rule is to flag.
LacksAccessibleName(el) ==
    /\ el.tagName \in {"BUTTON", "A"} \/ hasAttribute(el, "role")
    /\ el.tagName # "IFRAME"
    /\ ~hasAttribute(el, "aria-label")
    /\ ~hasAttribute(el, "aria-labelledby")
    /\ trim(el.textContent) = <<>>

\* C7: the accessible-name rule pushes exactly one error 'Interactive element missing
\* accessible name' for each button, link or role-carrying element outside the sidebar
\* that has neither aria-label nor aria-labelledby and whose text is empty or white
\* space, and none for any other element; an iframe is never flagged.  Both components.
C7_AccessibleNameRule ==
    (Returned({"all", "aria"}) \/ LegacyReturned({"all", "aria"})) =>
        /\ \A i \in 1..Len(tree) :
              ~tree[i].inSidebar =>
                  IssueCount(result.aria, "Interactive element missing accessible name", i)
                    = IF LacksAccessibleName(tree[i]) THEN 1 ELSE 0
        /\ \A k \in 1..Len(result.aria) :
              result.aria[k].message = "Interactive element missing accessible name" =>
                  result.aria[k].severity = "error"

\* Some label of the document refers to the control by its identifier.
LabelledBy(t, input) ==
    /\ hasAttribute(input, "id")
    /\ \E j \in 1..Len(t) :
          /\ t[j].tagName = "LABEL"
          /\ hasAttribute(t[j], "for")
          /\ t[j].htmlFor = input.id

\* C8: the form-label rule pushes an error 'Form control missing label' for an input,
\* select or textarea outside the sidebar if and only if the control carries no
\* aria-label and no label's 'for' reference matches the control's id; a label without
\* 'for' matches no control and a control without id is matched by no label.  Both
\* components.
C8_FormLabelRule ==
    (Returned({"all", "aria"}) \/ LegacyReturned({"all", "aria"})) =>
        \A i \in 1..Len(tree) :
            (tree[i].tagName \in {"INPUT", "SELECT", "TEXTAREA"} /\ ~tree[i].inSidebar) =>
                ((\E k \in 1..Len(result.aria) :
                     /\ result.aria[k].message = "Form control missing label"
                     /\ result.aria[k].severity = "error"
                     /\ result.aria[k].node = i)
                 <=> (~hasAttribute(tree[i], "aria-label") /\ ~LabelledBy(tree, tree[i])))

RunOrder ==
    [aria |-> <<"Interactive element missing accessible name",
                "Form control missing label",
                "Image missing alt text",
                "Element not focusable via keyboard">>,
     structure |-> <<"Skipped heading level", "Missing landmark region">>]

RuleOf(b, issue) == CHOOSE r \in 1..Len(RunOrder[b]) : RunOrder[b][r] = issue.message

\* The place of a landmark issue's landmark in landmarkNames; 0 for any other issue.
LandmarkPlace(issue) ==
    IF issue.node # 0 THEN 0
    ELSE CHOOSE r \in 1..Len(landmarkNames) : issue.element = "<" \o landmarkNames[r] \o ">"

\* C10 as stated: within the aria bucket and within the structure bucket, whenever an
\* issue about element x precedes an issue about element y, x does not come after y in
\* document order, whichever rule pushed each.
C10_DocumentOrderAcrossRules ==
    Returned({"all", "aria", "structure"}) =>
        \A b \in {"aria", "structure"} : \A j, k \in 1..Len(result[b]) :
            (j < k /\ result[b][j].node # 0 /\ result[b][k].node # 0) =>
                result[b][j].node <= result[b][k].node

\* C10 amended: within the aria bucket and within the structure bucket the issues stand
\* rule by rule, in the order the rules run (accessible name, form label, image alt,
\* focusability; heading hierarchy, landmarks in the order header, main, nav, footer,
\* aside); among the issues of one rule, an issue about element x precedes an issue
\* about element y only if x does not come after y in document order.
C10_DocumentOrderWithinRule ==
    Returned({"all", "aria", "structure"}) =>
        \A b \in {"aria", "structure"} : \A j, k \in 1..Len(result[b]) :
            j < k =>
                \/ RuleOf(b, result[b][j]) < RuleOf(b, result[b][k])
                \/ /\ RuleOf(b, result[b][j]) = RuleOf(b, result[b][k])
                   /\ result[b][j].node <= result[b][k].node
                   /\ LandmarkPlace(result[b][j]) <= LandmarkPlace(result[b][k])

\* Two rules have each flagged two elements, and the later rule's first issue is about
\* an element that comes before the earlier rule's last.
C10_Witness ==
    /\ Returned({"aria"})
    /\ \E i, j, k, l \in 1..Len(result.aria) :
          /\ i < j /\ j < k /\ k < l
          /\ RuleOf("aria", result.aria[i]) = RuleOf("aria", result.aria[j])
          /\ RuleOf("aria", result.aria[k]) = RuleOf("aria", result.aria[l])
          /\ RuleOf("aria", result.aria[j]) < RuleOf("aria", result.aria[k])
          /\ result.aria[i].node < result.aria[j].node
          /\ result.aria[k].node < result.aria[j].node
          /\ result.aria[k].node < result.aria[l].node

\* C11: the image-alt rule pushes exactly one issue 'Image missing alt text' for every
\* img outside the sidebar that has no alt attribute, none for an img that has one
\* (even an empty one), and the severity of the issue is error.  Both components.
C11_ImageAltRule ==
    (Returned({"all", "aria"}) \/ LegacyReturned({"all", "aria"})) =>
        /\ \A i \in 1..Len(tree) :
              ~tree[i].inSidebar =>
                  IssueCount(result.aria, "Image missing alt text", i)
                    = IF tree[i].tagName = "IMG" /\ ~hasAttribute(tree[i], "alt")
                      THEN 1 ELSE 0
        /\ \A k \in 1..Len(result.aria) :
              result.aria[k].message = "Image missing alt text" =>
                  result.aria[k].severity = "error"

\* C12: the focusability rule pushes exactly one warning 'Element not focusable via
\* keyboard' for every a, button, input, select or textarea outside the sidebar whose
\* tabIndex is negative, and none for an element of those kinds whose tabIndex is zero
\* or positive, nor for an element of another kind.
C12_FocusabilityRule ==
    Returned({"all", "aria"}) =>
        /\ \A i \in 1..Len(tree) :
              IssueCount(result.aria, "Element not focusable via keyboard", i)
                = IF /\ tree[i].tagName \in {"A", "BUTTON", "INPUT", "SELECT", "TEXTAREA"}
                     /\ tree[i].tabIndex < 0
                     /\ ~tree[i].inSidebar
                  THEN 1 ELSE 0
        /\ \A k \in 1..Len(result.aria) :
              result.aria[k].message = "Element not focusable via keyboard" =>
                  result.aria[k].severity = "warning"

\* Two focusable elements with a negative tabIndex are flagged, in a document that also
\* holds a focusable element with a positive tabIndex and, outside the focusable kinds,
\* an element with a negative one.
C12_Witness ==
    /\ Returned({"aria"})
    /\ Len(tree) = 3
    /\ \A i \in 1..Len(tree) : ~tree[i].inSidebar
    /\ \E i, j \in 1..Len(tree) :
          /\ tree[i].tagName = "BUTTON" /\ tree[j].tagName \in {"INPUT", "DIV"}
          /\ IssueCount(result.aria, "Element not focusable via keyboard", i) = 1
          /\ IssueCount(result.aria, "Element not focusable via keyboard", j) = 0
    /\ Cardinality({k \in 1..Len(result.aria) :
                      result.aria[k].message = "Element not focusable via keyboard"}) = 2

RECURSIVE PageOf(_)
PageOf(t) ==
    IF t = <<>> THEN <<>>
    ELSE (IF Head(t).inSidebar THEN <<>> ELSE <<Head(t)>>) \o PageOf(Tail(t))

\* C14: the report does not depend on what is inside the sidebar: for every filter the
\* report on a document equals, issue for issue, the report on the same document with
\* the sidebar's contents removed; a heading inside the sidebar is never the preceding
\* heading of a page heading and a label inside it labels no page control.
C14_ReportIgnoresSidebarContents ==
    Returned(Filters) =>
        \A b \in Buckets :
            Shown(result[b]) = Shown(checkAccessibility(PageOf(tree), category)[b])

\* C15: for every document and every category c, bucket c of checkAccessibility(c)
\* equals bucket c of checkAccessibility() on the same document.
C15_FilterKeepsBucket ==
    (caller = "AllySidebar" /\ category \in Buckets /\ IsReport(result)) =>
        /\ IsReport(checkAccessibility(tree, "all"))
        /\ result[category] = checkAccessibility(tree, "all")[category]

\* C16: in every state of the AllySidebar panel reached by runCategoryCheck calls,
\* route changes and timers, a category whose displayed list is non-empty has its
\* hasRun flag set, and a hasRun flag that is true stays true.
C16_ShownImpliesHasRun ==
    /\ [](AllySidebarMounted =>
            \A c \in Buckets : violations[c] # <<>> => hasRun[c])
    /\ [][AllySidebarMounted => \A c \in Buckets : hasRun[c] => hasRun'[c]]_vars

\* After some runs, a route change and a timer: aria has run and shows nothing,
\* structure has run and shows issues, contrast has not run.
C16_Witness ==
    /\ AllySidebarMounted
    /\ caller = "setTimeout"
    /\ hasRun.aria /\ violations.aria = <<>> /\ ~loading.aria
    /\ hasRun.structure /\ violations.structure # <<>> /\ loading.structure
    /\ ~hasRun.contrast /\ violations.contrast = <<>>

\* The report of a fresh scan of document t by the mounted component's
\* checkAccessibility, or what the call ends in.
FreshScan(t, c) ==
    IF AllySidebarMounted THEN checkAccessibility(t, c)
    ELSE AccessibilitySidebar_checkAccessibility(t, c)

\* C17: runCategoryCheck(c) replaces the displayed issues of c by bucket c of a fresh
\* scan of the current document and sets hasRun[c]; the displayed issues and hasRun
\* flags of every other category stay as they were; a timer changes no displayed
\* issues.  Both components.
C17_RunCategoryCheckFrame ==
    [][/\ \A c \in DOMAIN violations :
            (/\ caller' \in {"runCategoryCheck", "AccessibilitySidebar.runCategoryCheck"}
             /\ category' = c) =>
                /\ c \in DOMAIN FreshScan(tree, c)
                /\ violations'[c] = FreshScan(tree, c)[c]
                /\ hasRun'[c]
                /\ \A d \in DOMAIN violations \ {c} :
                      violations'[d] = violations[d] /\ hasRun'[d] = hasRun[d]
       /\ caller' = "setTimeout" => violations' = violations /\ hasRun' = hasRun]_vars

\* C18: on a route change in AllySidebar the displayed aria issues are replaced by a
\* fresh aria scan of the document now rendered if and only if the displayed aria list
\* was non-empty before; the displayed structure and contrast issues and every hasRun
\* flag stay as they were; an aria category that has run with zero issues is not
\* scanned again.
C18_RouteChangeRescansAria ==
    [][(AllySidebarMounted /\ caller' = "pathname") =>
          /\ violations'.aria = IF violations.aria # <<>>
                                THEN checkAccessibility(tree', "aria").aria
                                ELSE violations.aria
          /\ (violations.aria # <<>> <=> IsReport(result'))
          /\ violations'.structure = violations.structure
          /\ violations'.contrast = violations.contrast
          /\ hasRun' = hasRun]_vars

\* After a route change: aria has run and shows nothing although the page now rendered
\* has aria issues; structure still shows its issues.
C18_Witness ==
    /\ AllySidebarMounted
    /\ caller = "pathname"
    /\ result = NotCalled
    /\ hasRun.aria /\ violations.aria = <<>>
    /\ checkAccessibility(tree, "aria").aria # <<>>
    /\ violations.structure # <<>>

====
